---- MODULE Spec2Model ----
(***************************************************************************)
(* Model of academicteam_question_generator.py: the question file reader,  *)
(* the seeded sampler, the document composer (title page, tossup blocks,  *)
(* sixty-second rounds) and the main() pipeline.                           *)
(*                                                                         *)
(* Text is a sequence of atoms (one-character or one-fragment strings); a  *)
(* line of the question file is a sequence of atoms in which TAB is the    *)
(* delimiter.  Python lists are sequences; list index i (0-based) is       *)
(* sequence index i + 1.                                                   *)
(***************************************************************************)
EXTENDS Integers, Sequences, FiniteSets, TLC

VARIABLES
    files,        \* file system: file name -> [exists, lines]
    mt,           \* output cycle of the pseudo-random generator algorithm
    data,         \* local `data` of the last get_tossup_question_data call
    last,         \* last get_tossup_question_data call: arguments and outcome
    ref,          \* an earlier call kept for comparison: arguments and outcome
    pc,           \* position of main() / generate_document()
    args,         \* parsed command line
    generator,    \* the AcademicTeamQuestionGenerator main() builds
    pdf_filename, \* local of generate_document
    questions,    \* local of generate_document
    story,        \* local of generate_document
    n_loop,       \* loop counter n of generate_document
    written,      \* output files on disk: set of [name, story]
    stdout,       \* lines printed
    exc,          \* exception that ended the run, or "none"
    title_in,     \* arguments of the last create_title_page call
    title_out,    \* its return value
    round_in,     \* argument of the last create_sixtysecond_round call
    round_out     \* its return value

vars == << files, mt, data, last, ref, pc, args, generator,
           pdf_filename, questions, story, n_loop, written, stdout, exc,
           title_in, title_out, round_in, round_out >>

sample_vars == << data, last, ref >>
main_vars == << pc, args, generator, pdf_filename, questions, story, n_loop,
                written, stdout, exc >>
title_vars == << title_in, title_out >>
round_vars == << round_in, round_out >>

----------------------------------------------------------------------------
(* Bounds of the model *)

MaxLines == 2      \* lines in a question file
MaxItems == 12     \* items in a sixty-second round

(* Program constants *)

SEED == 12345
NumFields == 4
EXTRA_AT == 10
SPAN_ROW == 11

----------------------------------------------------------------------------
(* Values *)

TAB == "\t"
NoFile == [exists |-> FALSE, lines |-> <<>>]
File(lines) == [exists |-> TRUE, lines |-> lines]

Ok(v) == [ok |-> TRUE, value |-> v, exc |-> "none"]
Raise(e) == [ok |-> FALSE, value |-> <<>>, exc |-> e]

SeqsUpTo(S, n) == UNION { [1..m -> S] : m \in 0..n }

----------------------------------------------------------------------------
(* Reader: open(filename) and csv.reader(delimiter='\t') *)

DefaultFilename == "./sample_questions.txt"
DefaultQuestions == "sample_questions.txt"
OtherQuestions == "other_questions.txt"

\* the file a path names, relative to the working directory
resolve(path) == IF path = DefaultFilename THEN DefaultQuestions ELSE path

FileNames == {DefaultQuestions, OtherQuestions}

\* str.split-like field splitting of a non-empty line on the delimiter
RECURSIVE split_fields(_)
split_fields(line) ==
    IF line = <<>> THEN << <<>> >>
    ELSE LET rest == split_fields(Tail(line))
         IN IF Head(line) = TAB
            THEN << <<>> >> \o rest
            ELSE << <<Head(line)>> \o Head(rest) >> \o Tail(rest)

\* csv.reader yields [] for an empty line and the delimited fields otherwise
csv_row(line) == IF line = <<>> THEN <<>> ELSE split_fields(line)

\* the dict built for one row; `id` is the identity of the dict object
\* (the 0-based position of its row), the four keys are those of the code
row_record(row, i) ==
    [q |-> row[1], a |-> row[2], category |-> row[3], grade |-> row[4], id |-> i]

\* variant of read_rows: a row with too few fields is skipped
RECURSIVE read_rows_skipping(_, _)
read_rows_skipping(lines, acc) ==
    IF lines = <<>> THEN Ok(acc)
    ELSE LET row == csv_row(Head(lines))
         IN IF Len(row) < NumFields THEN read_rows_skipping(Tail(lines), acc)
            ELSE read_rows_skipping(Tail(lines), Append(acc, row_record(row, Len(acc))))

\* the `for row in reader: data.append(...)` loop; row[k] raises IndexError
RECURSIVE read_rows(_, _)
read_rows(lines, acc) ==
    IF lines = <<>> THEN Ok(acc)
    ELSE LET row == csv_row(Head(lines))
         IN IF Len(row) < NumFields THEN Raise("IndexError")
            ELSE read_rows(Tail(lines), Append(acc, row_record(row, Len(acc))))

----------------------------------------------------------------------------
(* Sampler: random.Random(12345).sample(data, k) *)

\* The generator algorithm is a fixed cycle of outputs, mt, unknown to the
\* model and chosen in the initial state; seeding selects the place in the
\* cycle where a generator starts.  randbelow(n) reduces one output to
\* 0 .. n - 1.  Populations are below the size (21) from which sample()
\* tracks selections in a set; the pool branch is the one modelled.

Period == MaxLines
Draws == 0 .. (MaxLines - 1)
Streams == [0 .. (Period - 1) -> Draws]

\* variant of Random: one generator shared by all calls, which goes on
\* from where the previous call left it
Random_shared(seed) == [pos |-> (seed + Len(last.result.value)) % Period]

\* a generator seeded with `seed`: the seed fixes the start in the cycle
Random(seed) == [pos |-> seed % Period]

randbelow(rng, n) == mt[rng.pos] % n
advance(rng) == [pos |-> (rng.pos + 1) % Period]

\* variant of sample_loop: the selected item stays in the pool
RECURSIVE sample_loop_replacing(_, _, _, _, _, _)
sample_loop_replacing(rng, pool, n, i, k, result) ==
    IF i = k THEN result
    ELSE LET j == randbelow(rng, n)
         IN sample_loop_replacing(advance(rng), pool, n, i + 1, k,
                                  Append(result, pool[j + 1]))

\* the pool branch of sample(): for i in range(k): j = randbelow(n - i);
\* result[i] = pool[j]; pool[j] = pool[n - i - 1]
RECURSIVE sample_loop(_, _, _, _, _, _)
sample_loop(rng, pool, n, i, k, result) ==
    IF i = k THEN result
    ELSE LET j == randbelow(rng, n - i)
         IN sample_loop(advance(rng), [pool EXCEPT ![j + 1] = pool[n - i]],
                        n, i + 1, k, Append(result, pool[j + 1]))

\* variant of sample: a request larger than the population is cut to it
sample_truncating(rng, population, k) ==
    LET n == Len(population)
        m == IF k > n THEN n ELSE k
    IN IF k < 0 THEN Raise("ValueError")
       ELSE Ok(sample_loop(rng, population, n, 0, m, <<>>))

sample(rng, population, k) ==
    LET n == Len(population)
    IN IF ~(0 <= k /\ k <= n) THEN Raise("ValueError")
       ELSE Ok(sample_loop(rng, population, n, 0, k, <<>>))

\* get_tossup_question_data: [data |-> the local list, result |-> outcome]
get_tossup_question_data(self, num_questions, filename) ==
    LET f == files[resolve(filename)]
    IN IF ~f.exists THEN [data |-> <<>>, result |-> Raise("FileNotFoundError")]
       ELSE LET rd == read_rows(f.lines, <<>>)
            IN IF ~rd.ok THEN [data |-> <<>>, result |-> rd]
               ELSE [data |-> rd.value,
                     result |-> sample(Random(SEED), rd.value, num_questions)]

AcademicTeamQuestionGenerator(data_path) == [data_path |-> data_path, pdf_story |-> <<>>]

----------------------------------------------------------------------------
(* Question files used as inputs *)

Line1 == << "Name the four blood types.", TAB, "A, B, AB, O", TAB, "Science", TAB, "5" >>
Line2 == << "Name the state located immediately west of Alabama.", TAB,
            "Mississippi", TAB, "Geography", TAB, "6" >>
ShortLine == << "Name the four blood types.", TAB, "A, B, AB, O" >>

SampleLines == {Line1, Line2}
SampleNs == 0 .. (MaxLines + 1)

NoGenerator == [data_path |-> "", pdf_story |-> <<>>]
NoResult == Raise("none")
NoCall == [self |-> NoGenerator, n |-> 0, result |-> NoResult]
NoArgs == [questions |-> "", output |-> "", num_tossup |-> <<>>]
NoName == <<>>
NoTitle == [grades |-> "", tournament_type |-> "", year |-> "", game_number |-> ""]
NoRound == [title |-> <<>>, instruct |-> <<>>, questions |-> <<>>]

IdleSample ==
    /\ data = <<>> /\ last = NoCall
    /\ ref = NoCall
IdleMain ==
    /\ pc = "idle" /\ args = NoArgs /\ generator = NoGenerator /\ pdf_filename = NoName
    /\ questions = <<>> /\ story = <<>> /\ n_loop = 0 /\ written = {}
    /\ stdout = <<>> /\ exc = "none"
IdleTitle == title_in = NoTitle /\ title_out = <<>>
IdleRound == round_in = NoRound /\ round_out = <<>>

----------------------------------------------------------------------------
(* Calls of get_tossup_question_data on generator objects *)

\* one call; `keep` records it as the call later calls are compared with
Call(self, n, keep) ==
    LET r == get_tossup_question_data(self, n, DefaultFilename)
    IN /\ keep => ref = NoCall
       /\ data' = r.data
       /\ last' = [self |-> self, n |-> n, result |-> r.result]
       /\ ref' = IF keep THEN last' ELSE ref
       /\ UNCHANGED << files, mt, main_vars, title_vars, round_vars >>

Callers == { AcademicTeamQuestionGenerator(p) : p \in {DefaultQuestions, OtherQuestions} }

InitSample ==
    /\ \E f \in {File(l) : l \in SeqsUpTo(SampleLines, MaxLines)} \cup {NoFile} :
          files = [name \in FileNames |-> IF name = DefaultQuestions THEN f ELSE NoFile]
    /\ mt \in Streams
    /\ IdleSample /\ IdleMain /\ IdleTitle /\ IdleRound

NextSample == \E self \in Callers, n \in SampleNs, keep \in BOOLEAN : Call(self, n, keep)

SpecSample == InitSample /\ [][NextSample]_vars

\* arbitrary question files: every line of at most NumFields atoms
Atoms == {"x", TAB}
ReadLines == SeqsUpTo(Atoms, NumFields)
ReadNs == {0, MaxLines}
ZeroStream == [p \in 0 .. (Period - 1) |-> 0]

InitRead ==
    /\ \E l \in SeqsUpTo(ReadLines, MaxLines) :
          files = [name \in FileNames |-> IF name = DefaultQuestions THEN File(l) ELSE NoFile]
    /\ mt = ZeroStream
    /\ IdleSample /\ IdleMain /\ IdleTitle /\ IdleRound

NextRead == \E n \in ReadNs : Call(AcademicTeamQuestionGenerator(DefaultQuestions), n, FALSE)

SpecRead == InitRead /\ [][NextRead]_vars

----------------------------------------------------------------------------
(* Composer: reportlab flowables and the blocks built from them *)

Paragraph(text, style) == [kind |-> "Paragraph", text |-> text, style |-> style]
Spacer(width, height) == [kind |-> "Spacer", width |-> width, height |-> height]
PageBreak == [kind |-> "PageBreak"]
Table(cells, colWidths, rowHeights, style) ==
    [kind |-> "Table", data |-> cells, colWidths |-> colWidths,
     rowHeights |-> rowHeights, style |-> style]
KeepTogether(flowable) == [kind |-> "KeepTogether", content |-> flowable]

\* str() of a non-negative int: its decimal digits
Digit == << "0", "1", "2", "3", "4", "5", "6", "7", "8", "9" >>
RECURSIVE str(_)
str(n) == IF n < 10 THEN << Digit[n + 1] >> ELSE str(n \div 10) \o << Digit[(n % 10) + 1] >>

\* variant of create_title_page: the closing page break is left out
create_title_page_unbroken(grades, tournament_type, year, game_number) ==
    << Paragraph(<<"Saint John Nepomuk Academic Team">>, "SmallItalicTitle"),
       Paragraph(<<"Grades ", grades>>, "CustomTitle"),
       Paragraph(<<tournament_type>>, "CustomTitle"),
       Paragraph(<<"Questions">>, "CustomTitle"),
       Paragraph(<<year>>, "CustomTitle"),
       Spacer(0, 80),
       Paragraph(<<"Game ", game_number>>, "CustomTitle") >>

create_title_page(grades, tournament_type, year, game_number) ==
    << Paragraph(<<"Saint John Nepomuk Academic Team">>, "SmallItalicTitle"),
       Paragraph(<<"Grades ", grades>>, "CustomTitle"),
       Paragraph(<<tournament_type>>, "CustomTitle"),
       Paragraph(<<"Questions">>, "CustomTitle"),
       Paragraph(<<year>>, "CustomTitle"),
       Spacer(0, 80),
       Paragraph(<<"Game ", game_number>>, "CustomTitle"),
       PageBreak >>

create_tossup_round(question_number, question_data) ==
    KeepTogether(Table(
        << << Paragraph(question_number, "Normal"),
              Paragraph(question_data.q, "Normal") >>,
           << Paragraph(<<>>, "Normal"),
              Paragraph(question_data.a, "AnswerStyle") >> >>,
        << "0.4*inch", "6.6*inch" >>,
        << "None", "None" >>,
        << << "VALIGN", <<0, 0>>, <<-1, -1>>, "TOP" >> >>))

BlankRow == << Paragraph(<<>>, "None"), Paragraph(<<>>, "None"), Paragraph(<<>>, "None") >>
ExtraRow == << Paragraph(<<"EXTRA:">>, "BoldNormal"), Paragraph(<<>>, "None"),
               Paragraph(<<>>, "None") >>
ItemRow(i, question) ==
    << Paragraph(str(i + 1), "LeftNormal"), Paragraph(question.q, "LeftNormal"),
       Paragraph(question.a, "LeftNormal") >>

\* variant of round_rows: the marker is put in when i reaches 11
RECURSIVE round_rows_late(_, _, _)
round_rows_late(items, i, rows) ==
    IF i = Len(items) THEN rows
    ELSE round_rows_late(items, i + 1,
                    Append(IF i = EXTRA_AT + 1 THEN Append(rows, ExtraRow) ELSE rows,
                           ItemRow(i, items[i + 1])))

\* the `for i, question in enumerate(questions)` loop that fills `data`
RECURSIVE round_rows(_, _, _)
round_rows(items, i, rows) ==
    IF i = Len(items) THEN rows
    ELSE round_rows(items, i + 1,
                    Append(IF i = EXTRA_AT THEN Append(rows, ExtraRow) ELSE rows,
                           ItemRow(i, items[i + 1])))

create_sixtysecond_round(round_data) ==
    LET cells == round_rows(round_data.questions, 0, << BlankRow >>)
    IN << Paragraph(round_data.title, "CategoryTitle"),
          Spacer(0, 4),
          Paragraph(round_data.instruct, "LeftNormal"),
          Spacer(0, 2),
          KeepTogether(Table(
              cells,
              << "0.4*inch", "None", "None" >>,
              [r \in 1 .. Len(cells) |-> "0.15*inch"],
              << << "ALIGN", <<0, 0>>, <<-1, -1>>, "LEFT" >>,
                 << "SPAN", <<0, SPAN_ROW>>, <<1, SPAN_ROW>> >> >>)) >>

----------------------------------------------------------------------------
(* main() and generate_document(), one step per statement group *)

\* int() of a string of decimal digits
DigitValue(c) == CHOOSE d \in 0 .. 9 : Digit[d + 1] = c
RECURSIVE int(_)
int(text) ==
    IF Len(text) = 1 THEN DigitValue(text[1])
    ELSE 10 * int(SubSeq(text, 1, Len(text) - 1)) + DigitValue(text[Len(text)])

print(line) == stdout' = Append(stdout, line)

\* main(): parse_args and AcademicTeamQuestionGenerator(args.questions)
main_start(questions_arg, output_arg, num_tossup_arg) ==
    /\ pc = "idle"
    /\ args' = [questions |-> questions_arg, output |-> output_arg,
                num_tossup |-> num_tossup_arg]
    /\ generator' = AcademicTeamQuestionGenerator(questions_arg)
    /\ pc' = "generate_document"
    /\ UNCHANGED << files, mt, sample_vars, title_vars, round_vars, pdf_filename,
                    questions, story, n_loop, written, stdout, exc >>

\* generate_document up to story.extend(self.create_title_page())
gd_begin(timestamp) ==
    /\ pc = "generate_document"
    /\ print(<<"Generating PDF document with simple TOC...">>)
    /\ pdf_filename' = << args.output, "_", timestamp, ".pdf" >>
    /\ story' = create_title_page("5&6", "Practice Questions", "2025-2026", "1")
    /\ pc' = "get_questions"
    /\ UNCHANGED << files, mt, sample_vars, title_vars, round_vars, args, generator,
                    questions, n_loop, written, exc >>

\* variant of gd_get_questions: a failure to get the questions is taken as
\* no questions and the document is built all the same
gd_get_questions_lenient ==
    LET r == get_tossup_question_data(generator, int(args.num_tossup),
                                      DefaultFilename).result
    IN /\ pc = "get_questions"
       /\ questions' = r.value /\ n_loop' = 0 /\ pc' = "loop" /\ exc' = exc
       /\ UNCHANGED << files, mt, sample_vars, title_vars, round_vars, args, generator,
                       pdf_filename, story, written, stdout >>

\* questions = self.get_tossup_question_data(num_questions=num_tossup)
gd_get_questions ==
    LET r == get_tossup_question_data(generator, int(args.num_tossup),
                                      DefaultFilename).result
    IN /\ pc = "get_questions"
       /\ IF r.ok
          THEN questions' = r.value /\ n_loop' = 0 /\ pc' = "loop" /\ exc' = exc
          ELSE questions' = questions /\ n_loop' = n_loop /\ pc' = "raised"
               /\ exc' = r.exc
       /\ UNCHANGED << files, mt, sample_vars, title_vars, round_vars, args, generator,
                       pdf_filename, story, written, stdout >>

\* variant of gd_write_question: the block carries the 0-based counter
gd_write_question_zero_based ==
    /\ pc = "loop" /\ n_loop < Len(questions)
    /\ print(<<"Writing question ">> \o str(n_loop + 1))
    /\ story' = story \o << create_tossup_round(str(n_loop), questions[n_loop + 1]),
                             Spacer(1, 15) >>
    /\ n_loop' = n_loop + 1
    /\ UNCHANGED << files, mt, sample_vars, title_vars, round_vars, pc, args, generator,
                    pdf_filename, questions, written, exc >>

\* one pass of `for n, question in enumerate(questions)`
gd_write_question ==
    /\ pc = "loop" /\ n_loop < Len(questions)
    /\ print(<<"Writing question ">> \o str(n_loop + 1))
    /\ story' = story \o << create_tossup_round(str(n_loop + 1), questions[n_loop + 1]),
                             Spacer(1, 15) >>
    /\ n_loop' = n_loop + 1
    /\ UNCHANGED << files, mt, sample_vars, title_vars, round_vars, pc, args, generator,
                    pdf_filename, questions, written, exc >>

\* story.append(PageBreak()) after the loop
gd_page_break ==
    /\ pc = "loop" /\ n_loop = Len(questions)
    /\ story' = Append(story, PageBreak)
    /\ pc' = "build"
    /\ UNCHANGED << files, mt, sample_vars, title_vars, round_vars, args, generator,
                    pdf_filename, questions, n_loop, written, stdout, exc >>

\* doc.build(story): the output file comes into being here
gd_build ==
    /\ pc = "build"
    /\ written' = written \cup { [name |-> pdf_filename, story |-> story] }
    /\ print(<<"PDF document saved as: ">> \o pdf_filename)
    /\ pc' = "return"
    /\ UNCHANGED << files, mt, sample_vars, title_vars, round_vars, args, generator,
                    pdf_filename, questions, story, n_loop, exc >>

SuccessMessage == <<"\nSuccess! Directory generated as PDF">>

\* main() after generate_document returned
main_success ==
    /\ pc = "return"
    /\ print(SuccessMessage)
    /\ pc' = "exit"
    /\ UNCHANGED << files, mt, sample_vars, title_vars, round_vars, args, generator,
                    pdf_filename, questions, story, n_loop, written, exc >>

MainLines == {Line1, Line2, ShortLine}
MainFiles == { File(l) : l \in SeqsUpTo(MainLines, MaxLines) } \cup {NoFile}
OtherFiles == { NoFile, File(<<Line2>>), File(<<Line2, Line1>>) }
QuestionsArgs == {DefaultQuestions, OtherQuestions}
OutputArgs == {"Questions"}
NumTossupArgs == { str(n) : n \in 0 .. (MaxLines + 1) } \cup { <<"8", "0">> }
Timestamps == {"20261106_034000", "20261106_034001"}

Init ==
    /\ \E f \in MainFiles, o \in OtherFiles :
          files = [name \in FileNames |-> IF name = DefaultQuestions THEN f ELSE o]
    /\ mt \in Streams
    /\ IdleSample /\ IdleMain /\ IdleTitle /\ IdleRound

Next ==
    \/ \E q \in QuestionsArgs, o \in OutputArgs, n \in NumTossupArgs : main_start(q, o, n)
    \/ \E t \in Timestamps : gd_begin(t)
    \/ gd_get_questions
    \/ gd_write_question
    \/ gd_page_break
    \/ gd_build
    \/ main_success

Spec == Init /\ [][Next]_vars

----------------------------------------------------------------------------
(* Calls of create_title_page *)

GradesArgs == {"5&6", "7&8", "3&4"}
TournamentArgs == {"Practice Questions", "Tournament", "Regional Tournament"}
YearArgs == {"2025-2026", "2026-2027", "2027-2028"}
GameArgs == {"1", "2", "3", "4"}

CreateTitlePage(grades, tournament_type, year, game_number) ==
    /\ title_in' = [grades |-> grades, tournament_type |-> tournament_type,
                    year |-> year, game_number |-> game_number]
    /\ title_out' = create_title_page(grades, tournament_type, year, game_number)
    /\ UNCHANGED << files, mt, sample_vars, main_vars, round_vars >>

InitTitle ==
    /\ files = [name \in FileNames |-> NoFile]
    /\ mt = ZeroStream
    /\ IdleSample /\ IdleMain /\ IdleTitle /\ IdleRound

NextTitle ==
    \E g \in GradesArgs, t \in TournamentArgs, y \in YearArgs, n \in GameArgs :
        CreateTitlePage(g, t, y, n)

SpecTitle == InitTitle /\ [][NextTitle]_vars

----------------------------------------------------------------------------
(* Calls of create_sixtysecond_round *)

RoundItems == { [q |-> <<"Theodore Roosevelt">>, a |-> <<"20th">>],
                [q |-> <<"James Buchanan">>, a |-> <<"19th">>] }

SampleRound(items) ==
    [title |-> <<"U.S. Presidents by Century">>,
     instruct |-> <<"During what century was each of the following U.S. Presidents in Office?">>,
     questions |-> items]

CreateSixtySecondRound ==
    /\ round_in # NoRound
    /\ round_out = <<>>
    /\ round_out' = create_sixtysecond_round(round_in)
    /\ UNCHANGED << files, mt, sample_vars, main_vars, title_vars, round_in >>

InitRound ==
    /\ files = [name \in FileNames |-> NoFile]
    /\ mt = ZeroStream
    /\ IdleSample /\ IdleMain /\ IdleTitle
    /\ round_in \in { SampleRound(items) : items \in SeqsUpTo(RoundItems, MaxItems) }
    /\ round_out = <<>>

NextRound == CreateSixtySecondRound

SpecRound == InitRound /\ [][NextRound]_vars

----------------------------------------------------------------------------
(* Properties of get_tossup_question_data *)

Called == last # NoCall
SourceLines == files[DefaultQuestions].lines

\* C1: when the file was read and 0 <= n <= |pool|, the call returns exactly
\* n records, no parsed record (dict object) twice, each of them the parsed
\* record of its line with q, a, category and grade unchanged.
C1_SampleSizeUniqueFromPool ==
    (Called /\ files[DefaultQuestions].exists /\ last.n <= Len(SourceLines)) =>
        LET out == last.result.value
        IN /\ last.result.ok
           /\ Len(data) = Len(SourceLines)
           /\ Len(out) = last.n
           /\ \A i, j \in 1 .. Len(out) : i # j => out[i].id # out[j].id
           /\ \A i \in 1 .. Len(out) :
                 /\ out[i].id \in 0 .. (Len(data) - 1)
                 /\ out[i] = data[out[i].id + 1]

\* a call that returned a whole pool of at least two records, two of them equal
\* in all four fields
C1_Witness ==
    /\ Called /\ last.result.ok /\ Len(last.result.value) >= 2
    /\ Len(last.result.value) = Len(data)
    /\ data[1].q = data[2].q

\* C2: a call with the same num_questions as an earlier call (the file being
\* the same) has the same outcome, the same records in the same order, on
\* whichever generator objects the two calls were made and whatever calls
\* were made before or between them.
C2_Deterministic ==
    (Called /\ ref # NoCall /\ last.n = ref.n) => last.result = ref.result

\* two calls with the same n on different generator objects, both returning
\* at least two records
C2_Witness ==
    /\ Called /\ ref # NoCall /\ last.n = ref.n /\ last.self # ref.self
    /\ last.result.ok /\ Len(last.result.value) >= 2

\* C3: with the file read, n > |records| ends in an error and returns
\* nothing, and n = 0 succeeds with the empty sequence.
C3_InsufficientPoolFails ==
    (Called /\ files[DefaultQuestions].exists) =>
        /\ last.n > Len(SourceLines) =>
              /\ ~last.result.ok
              /\ last.result.exc = "ValueError"
              /\ last.result.value = <<>>
        /\ last.n = 0 => (last.result.ok /\ last.result.value = <<>>)

\* a call asking for one record more than a non-empty file holds, after a
\* call with n = 0
C3_Witness ==
    /\ Called /\ files[DefaultQuestions].exists /\ Len(SourceLines) >= 1
    /\ last.n = Len(SourceLines) + 1 /\ last.result.exc = "ValueError"
    /\ ref # NoCall /\ ref.n = 0 /\ ref.result.ok

\* number of tab-separated fields of a line, counted on the text
FieldCount(line) ==
    IF line = <<>> THEN 0 ELSE 1 + Cardinality({ i \in 1 .. Len(line) : line[i] = TAB })

HasTab(text) == \E i \in 1 .. Len(text) : text[i] = TAB

\* C9: reading fails when some line, a blank line included, has fewer than
\* four tab-separated fields; when every line has four fields there is one
\* record per line, in file order, whose q, a, category and grade are the
\* line's first, second, third and fourth field.
C9_ReadRecords ==
    Called =>
        /\ (\E i \in 1 .. Len(SourceLines) : FieldCount(SourceLines[i]) < 4) =>
              (~last.result.ok /\ last.result.exc = "IndexError")
        /\ (\A i \in 1 .. Len(SourceLines) : FieldCount(SourceLines[i]) = 4) =>
              /\ last.result.exc # "IndexError"
              /\ Len(data) = Len(SourceLines)
              /\ \A i \in 1 .. Len(data) :
                    /\ data[i].id = i - 1
                    /\ SourceLines[i] = data[i].q \o <<TAB>> \o data[i].a \o <<TAB>>
                                          \o data[i].category \o <<TAB>> \o data[i].grade
                    /\ ~HasTab(data[i].q) /\ ~HasTab(data[i].a)
                    /\ ~HasTab(data[i].category) /\ ~HasTab(data[i].grade)

\* a file whose first line has four fields and whose second line is blank
C9_Witness ==
    /\ Called /\ Len(SourceLines) = 2
    /\ FieldCount(SourceLines[1]) = 4 /\ SourceLines[2] = <<>>
    /\ last.result.exc = "IndexError"

----------------------------------------------------------------------------
(* Properties of create_title_page *)

TitleCalled == title_in # NoTitle

Kinds(flowables) == [i \in 1 .. Len(flowables) |-> flowables[i].kind]

\* C7 as stated: the title block is the organization line, the grade line,
\* the document-type line, the year line, a spacer, the game line and a page
\* break, seven elements and no other.
C7_TitleBlockAsStated ==
    TitleCalled =>
        /\ Kinds(title_out) = << "Paragraph", "Paragraph", "Paragraph", "Paragraph",
                                 "Spacer", "Paragraph", "PageBreak" >>
        /\ title_out[1].text = <<"Saint John Nepomuk Academic Team">>
        /\ title_out[2].text = <<"Grades ", title_in.grades>>
        /\ title_out[3].text = <<title_in.tournament_type>>
        /\ title_out[4].text = <<title_in.year>>
        /\ title_out[6].text = <<"Game ", title_in.game_number>>

\* C7 amended: the title block is the organization line, the grade line,
\* the document-type line, a fixed "Questions" line, the year line, a spacer,
\* the game line and, last, a page break: eight elements, for every choice
\* of the title parameters.
C7_TitleBlock ==
    TitleCalled =>
        /\ Kinds(title_out) = << "Paragraph", "Paragraph", "Paragraph", "Paragraph",
                                 "Paragraph", "Spacer", "Paragraph", "PageBreak" >>
        /\ title_out[1].text = <<"Saint John Nepomuk Academic Team">>
        /\ title_out[2].text = <<"Grades ", title_in.grades>>
        /\ title_out[3].text = <<title_in.tournament_type>>
        /\ title_out[4].text = <<"Questions">>
        /\ title_out[5].text = <<title_in.year>>
        /\ title_out[7].text = <<"Game ", title_in.game_number>>
        /\ title_out[Len(title_out)] = PageBreak

\* a title page built with parameters other than the defaults
C7_Witness ==
    /\ TitleCalled /\ title_out # <<>>
    /\ title_in.grades = "7&8" /\ title_in.tournament_type = "Tournament"
    /\ title_in.year = "2026-2027" /\ title_in.game_number = "3"

----------------------------------------------------------------------------
(* Properties of create_sixtysecond_round *)

RoundCalled == round_out # <<>>
RoundTable == round_out[Len(round_out)].content
Items == round_in.questions
IsItemRow(row, number, item) ==
    /\ row[1].text = str(number) /\ row[2].text = item.q /\ row[3].text = item.a
IsExtraRow(row) == row[1].text = <<"EXTRA:">>
ExtraPositions == { r \in 1 .. Len(RoundTable.data) : IsExtraRow(RoundTable.data[r]) }

\* C8 as stated: for 11 items the rows are item 1 .. item 10, EXTRA:, item 11
\* with the EXTRA: row at 0-based index 10; the marker is there exactly once,
\* right before item 11, if and only if there are at least 11 items.
C8_ExtraRowAsStated ==
    RoundCalled =>
        LET rows == RoundTable.data
        IN /\ Len(Items) = 11 =>
                /\ Len(rows) = 12
                /\ \A i \in 1 .. 10 : IsItemRow(rows[i], i, Items[i])
                /\ IsExtraRow(rows[10 + 1])
                /\ IsItemRow(rows[12], 11, Items[11])
           /\ Cardinality(ExtraPositions) = (IF Len(Items) >= 11 THEN 1 ELSE 0)

\* C8 amended: the table opens with one blank row; for 11 items the rows
\* are the blank row, item 1 .. item 10, EXTRA:, item 11, with the EXTRA: row
\* at 0-based index 11; in general the items follow the blank row in input
\* order, numbered from 1, and the EXTRA: row is there exactly once, right
\* before the item numbered 11, if and only if there are at least 11 items.
C8_ExtraRow ==
    RoundCalled =>
        LET rows == RoundTable.data
            n == Len(Items)
        IN /\ rows[1] = BlankRow
           /\ Len(rows) = (IF n >= 11 THEN n + 2 ELSE n + 1)
           /\ \A i \in 1 .. n : i <= 10 => IsItemRow(rows[i + 1], i, Items[i])
           /\ \A i \in 1 .. n : i >= 11 => IsItemRow(rows[i + 2], i, Items[i])
           /\ ExtraPositions = (IF n >= 11 THEN {11 + 1} ELSE {})

\* a round of exactly 11 items
C8_Witness == RoundCalled /\ Len(Items) = 11 /\ Len(RoundTable.data) = 13

SpanRows ==
    { cmd[2][2] : cmd \in { RoundTable.style[c] : c \in
                              { d \in 1 .. Len(RoundTable.style) :
                                  RoundTable.style[d][1] = "SPAN" } } }

\* C10: in every table built, whatever the number of items, the row the
\* SPAN style names (0-based) is a row of the table and is the EXTRA: row.
C10_SpanRowIsExtraRow ==
    RoundCalled =>
        \A r \in SpanRows :
            /\ r < Len(RoundTable.data)
            /\ IsExtraRow(RoundTable.data[r + 1])

----------------------------------------------------------------------------
(* Properties of main() and generate_document() *)

QuestionsRead == pc \in {"loop", "build", "return", "exit"}
Composed == pc \in {"build", "return", "exit"}
Failed == pc = "raised"

\* the four fields of a line, taken from the text between its tabs
FieldsOf(line) ==
    LET tabs == { i \in 1 .. Len(line) : line[i] = TAB }
        cut(k) == IF k = 0 THEN 0
                  ELSE IF k > Cardinality(tabs) THEN Len(line) + 1
                  ELSE CHOOSE t \in tabs : Cardinality({ u \in tabs : u <= t }) = k
    IN [k \in 1 .. 4 |-> SubSeq(line, cut(k - 1) + 1, cut(k) - 1)]

IsRecordOf(record, line) ==
    /\ FieldCount(line) >= 4
    /\ record.q = FieldsOf(line)[1] /\ record.a = FieldsOf(line)[2]
    /\ record.category = FieldsOf(line)[3] /\ record.grade = FieldsOf(line)[4]

\* C4: the records of a run are those of the file that --questions names:
\* with a file at each of two different paths, every question sampled by the
\* run is the record of a line of the file --questions names.
C4_ReadsQuestionsPath ==
    (QuestionsRead /\ \A name \in FileNames : files[name].exists) =>
        LET f == files[resolve(args.questions)]
        IN \A i \in 1 .. Len(questions) :
              \E j \in 1 .. Len(f.lines) : IsRecordOf(questions[i], f.lines[j])

\* what makes a run fail: the file it opens is missing, has a malformed
\* line, or holds fewer records than asked for
RunMustFail ==
    LET f == files[resolve(DefaultFilename)]
    IN \/ ~f.exists
       \/ \E i \in 1 .. Len(f.lines) : FieldCount(f.lines[i]) < 4
       \/ int(args.num_tossup) > Len(f.lines)

InStdout(line) == \E i \in 1 .. Len(stdout) : stdout[i] = line

\* C5: a run that fails leaves no output file and never prints the final
\* success message; a missing file, a malformed record or n greater than
\* the pool does make the run fail; and an output file exists only once all
\* n questions were read, sampled and composed into the story it holds.
C5_NoOutputOnFailure ==
    /\ Failed => (written = {} /\ ~InStdout(SuccessMessage))
    /\ (pc # "idle" /\ RunMustFail) =>
          (written = {} /\ ~InStdout(SuccessMessage) /\ pc \notin {"build", "return", "exit"})
    /\ written # {} =>
          /\ pc \in {"return", "exit"} /\ exc = "none"
          /\ n_loop = Len(questions) /\ Len(questions) = int(args.num_tossup)
          /\ written = { [name |-> pdf_filename, story |-> story] }
    /\ InStdout(SuccessMessage) => written # {}

\* a run that failed on too large a request after the title page was composed
C5_Witness ==
    /\ Failed /\ exc = "ValueError" /\ story # <<>> /\ written = {}
    /\ files[DefaultQuestions].exists /\ Len(files[DefaultQuestions].lines) >= 1

\* value of a decimal numeral
RECURSIVE Numeral(_)
Numeral(text) ==
    IF text = <<>> THEN 0
    ELSE 10 * Numeral(SubSeq(text, 1, Len(text) - 1))
         + (CHOOSE d \in 0 .. 9 : Digit[d + 1] = text[Len(text)])

DefaultTitle == create_title_page("5&6", "Practice Questions", "2025-2026", "1")
TitleLen == Len(DefaultTitle)

\* C6: the story of a run with n sampled questions is the title block, whose
\* last element is a page break, then for k = 1 .. n the two-row block of the
\* k-th sampled question (number k and the question in row 1, an empty cell
\* and the answer in row 2) followed by one spacer, then one page break, and
\* nothing else.
C6_StoryLayout ==
    Composed =>
        LET n == Len(questions)
        IN /\ n = int(args.num_tossup)
           /\ Len(story) = TitleLen + 2 * n + 1
           /\ SubSeq(story, 1, TitleLen) = DefaultTitle
           /\ story[TitleLen] = PageBreak
           /\ \A k \in 1 .. n :
                 LET block == story[TitleLen + 2 * k - 1]
                     rows == block.content.data
                 IN /\ block.kind = "KeepTogether" /\ block.content.kind = "Table"
                    /\ Len(rows) = 2
                    /\ Numeral(rows[1][1].text) = k /\ rows[1][1].text # <<>>
                    /\ rows[1][2].text = questions[k].q
                    /\ rows[2][1].text = <<>>
                    /\ rows[2][2].text = questions[k].a
                    /\ story[TitleLen + 2 * k] = Spacer(1, 15)
           /\ story[Len(story)] = PageBreak
           /\ \A w \in written : w.story = story

\* a finished run with two different questions
C6_Witness ==
    /\ pc = "exit" /\ Len(questions) = 2 /\ questions[1].q # questions[2].q
    /\ written # {}

====
